---- MODULE Spec2Model ----
(***************************************************************************)
(* Model of core/framework/observability/logging.py: the ContextVar-based  *)
(* trace context store (set/get/clear_trace_context), its propagation to   *)
(* child units of work, and the two formatters that render a log record    *)
(* under the calling task's context.                                       *)
(*                                                                         *)
(* Python dicts are objects: the ContextVar holds a REFERENCE to a dict,   *)
(* a copied Context shares that reference, and only a fresh dict is        *)
(* independent.  The model therefore keeps a heap of dict objects          *)
(* (heap : id -> mapping) and stores ids, with id 0 standing for None.     *)
(* An id carries no meaning of its own: after every operation the live     *)
(* objects are named after the first reference that reaches them, and      *)
(* unreachable objects are dropped.                                        *)
(***************************************************************************)
EXTENDS Integers, Sequences, FiniteSets, TLC

\* ---------------------------------------------------------------- bounds
\* Number of child units of work that may be spawned from the main task.
MaxChildren == 2
\* The clock read by datetime.now(UTC) yields an instant in 0..MaxNow.
MaxNow == 0

Tasks == 0..MaxChildren
Instants == 0..MaxNow

\* ---------------------------------------------------------------- dicts
\* A Python dict with string keys is a function whose domain is its key set.
EmptyDict == [k \in {} |-> ""]

\* Stand-in for Python's None where a value is expected.
None == "None"

\* d[k] = v on a dict value (insert or overwrite).
DictPut(d, k, v) == [x \in DOMAIN d \cup {k} |-> IF x = k THEN v ELSE d[x]]

\* del d[k] on a dict value.
DictDel(d, k) == [x \in DOMAIN d \ {k} |-> d[x]]

\* base.update(other): every item of other is written over base.
DictUpdate(base, other) ==
  [x \in DOMAIN base \cup DOMAIN other |->
     IF x \in DOMAIN other THEN other[x] ELSE base[x]]

\* A plausible slip: {**kwargs, **current}, so the stored entries win.
DictUnpackReversed(current, kwargs) == DictUpdate(kwargs, current)

\* {**current, **kwargs}: the items of current, then those of kwargs over them.
DictUnpack(current, kwargs) == DictUpdate(current, kwargs)

\* ---------------------------------------------------------------- heap
\* id of a new object: any id not in use.
FreshId(h) == CHOOSE i \in 1..(Cardinality(DOMAIN h) + 1) : i \notin DOMAIN h

\* Creating a dict object with contents d: the heap afterwards and its id.
Alloc(h, d) ==
  LET i == FreshId(h)
  IN  [heap |-> [x \in DOMAIN h \cup {i} |-> IF x = i THEN d ELSE h[x]],
       ref  |-> i]

\* `value or {}`: None and the empty dict are both falsy and give a new {}.
OrEmpty(h, r) ==
  IF r = 0 \/ h[r] = EmptyDict THEN Alloc(h, EmptyDict)
  ELSE [heap |-> h, ref |-> r]

\* ---------------------------------------------------------------- state
VARIABLES
  parent,         \* parent[t]: the task that spawned t; -1: t is the main task or not spawned
  trace_context,  \* trace_context[t]: the ContextVar's value in t's Context (0 = None)
  heap,           \* the live dict objects, by id
  held,           \* the dict last returned by get_trace_context, kept by its caller (0: none)
  own,            \* own[t]: t's inherited mapping folded with t's own set/clear calls
  out,            \* the value returned by the format call of the latest step
  root,           \* the root logger: its handlers, each named by its formatter, and its level
  env,            \* the environment variables LOG_FORMAT and ENV (None: unset)
  call,           \* the latest configure_logging call: its arguments, the number of
                  \* handlers it found bound, and the error it raised
  sink            \* what the logging call of the latest step wrote to the stream

vars == <<parent, trace_context, heap, held, own, out, root, env, call, sink>>

\* The state configure_logging and the logging calls work on.
logvars == <<root, env, call, sink>>

NoOut == [fmt |-> "none"]
NoCall == [error |-> "no call"]
NoSink == [lines |-> <<>>, logged |-> FALSE]

\* logging.WARNING, the level of a root logger nobody has configured.
WARNING == 30

Running(t) == t = 0 \/ parent[t] # -1

\* The name of object r: one more than the first task whose Context refers to
\* it, and MaxChildren + 2 for a dict only a caller holds.
NameOf(tc, r) ==
  IF r = 0 THEN 0
  ELSE IF \E t \in Tasks : tc[t] = r
       THEN 1 + (CHOOSE t \in Tasks : tc[t] = r /\ \A u \in 0..(t - 1) : tc[u] # r)
       ELSE MaxChildren + 2

\* The operation's result becomes the next state: references tc (per task) and
\* hd (the caller's) into heap h, unreachable objects reclaimed.
Commit(tc, h, hd) ==
  LET roots == ({tc[t] : t \in Tasks} \cup {hd}) \ {0}
  IN  /\ trace_context' = [t \in Tasks |-> NameOf(tc, tc[t])]
      /\ held' = NameOf(tc, hd)
      /\ heap' = [i \in {NameOf(tc, r) : r \in roots} |->
                    h[CHOOSE r \in roots : NameOf(tc, r) = i]]

\* ---------------------------------------------------------------- inputs
\* The keyword arguments set_trace_context is called with.
Updates ==
  { EmptyDict,
    [trace_id |-> "0123456789ab"],
    [trace_id |-> "t2", node_id |-> "n1", level |-> "ctx"] }

\* Keys and values a caller writes into a mapping it got from get_trace_context.
CallerKeys == {"trace_id"}
CallerValues == {"mine"}

\* ---------------------------------------------------------------- store
\* A plausible slip: a module-level variable instead of a ContextVar, so every
\* task reads the main task's value.
ProcessWideContext(t) == trace_context[0]

\* trace_context.get() evaluated in task t: the value in t's own Context,
\* None (0) by default.
CurrentContext(t) == trace_context[t]

\* The mapping `trace_context.get() or {}` evaluates to in task t.
StoreOf(t) ==
  LET c == OrEmpty(heap, CurrentContext(t)) IN c.heap[c.ref]

\* A plausible slip: current.update(kwargs) on the stored dict itself.
UpdateInPlace(h, r, kwargs) ==
  [heap |-> [h EXCEPT ![r] = DictUnpack(h[r], kwargs)], ref |-> r]

\* {**current, **kwargs}: a NEW dict object built from the object r and kwargs.
NewContext(h, r, kwargs) == Alloc(h, DictUnpack(h[r], kwargs))

\* A plausible slip: `return context` without the copy.
DictAlias(h, r) == [heap |-> h, ref |-> r]

\* context.copy(): a new dict object with the same items.
DictCopy(h, r) == Alloc(h, h[r])

\* A plausible slip: clear forgets to reset the variable.
ClearForgotten(h, r) == [heap |-> h, ref |-> r]

\* trace_context.set(None): the variable no longer refers to any dict; the dict
\* object it referred to (r) is left as it is.
ContextCleared(h, r) == [heap |-> h, ref |-> 0]

Init ==
  /\ parent = [t \in Tasks |-> -1]
  /\ trace_context = [t \in Tasks |-> 0]
  /\ heap = [x \in {} |-> EmptyDict]
  /\ held = 0
  /\ own = [t \in Tasks |-> EmptyDict]
  /\ out = NoOut
  /\ root = [handlers |-> <<>>, level |-> WARNING]
  /\ env = [LOG_FORMAT |-> None, ENV |-> None]
  /\ call = NoCall
  /\ sink = NoSink

\* set_trace_context(**kwargs) called by task t.
SetTraceContext(t, kwargs) ==
  /\ Running(t)
  /\ UNCHANGED parent
  /\ out' = NoOut
  /\ UNCHANGED logvars
  /\ own' = [own EXCEPT ![t] = DictUpdate(@, kwargs)]
  /\ LET current == OrEmpty(heap, CurrentContext(t))
         new == NewContext(current.heap, current.ref, kwargs)
     IN  Commit([trace_context EXCEPT ![t] = new.ref], new.heap, held)

\* get_trace_context() called by task t; the caller keeps the returned dict.
GetTraceContext(t) ==
  /\ Running(t)
  /\ UNCHANGED <<parent, own>>
  /\ out' = NoOut
  /\ UNCHANGED logvars
  /\ LET context == OrEmpty(heap, CurrentContext(t))
         result == DictCopy(context.heap, context.ref)
     IN  Commit(trace_context, result.heap, result.ref)

\* clear_trace_context() called by task t.
ClearTraceContext(t) ==
  /\ Running(t)
  /\ UNCHANGED parent
  /\ out' = NoOut
  /\ UNCHANGED logvars
  /\ own' = [own EXCEPT ![t] = EmptyDict]
  /\ LET cleared == ContextCleared(heap, CurrentContext(t))
     IN  Commit([trace_context EXCEPT ![t] = cleared.ref], cleared.heap, held)

\* The caller writes d[k] = v into the dict it got from get_trace_context.
CallerPut(k, v) ==
  /\ held # 0
  /\ Commit(trace_context, [heap EXCEPT ![held] = DictPut(@, k, v)], held)
  /\ out' = NoOut
  /\ UNCHANGED logvars
  /\ UNCHANGED <<parent, own>>

\* The caller removes a key from the dict it got from get_trace_context.
CallerDel(k) ==
  /\ held # 0
  /\ k \in DOMAIN heap[held]
  /\ Commit(trace_context, [heap EXCEPT ![held] = DictDel(@, k)], held)
  /\ out' = NoOut
  /\ UNCHANGED logvars
  /\ UNCHANGED <<parent, own>>

\* ---------------------------------------------------------------- spawning
\* The next task to be spawned: the smallest one not yet running.
NextChild == CHOOSE c \in Tasks : ~Running(c) /\ \A d \in 0..(c - 1) : Running(d)

\* Task p spawns a child unit of work.  An asyncio task runs in a copy of the
\* spawner's Context; the copy holds the same ContextVar value, that is a
\* reference to the same dict object.  A thread started with threading.Thread
\* runs in an empty Context (the variable reads its default, None) unless the
\* runtime hands it a copy (asyncio.to_thread, or a build whose threads inherit
\* the context): both outcomes are drawn.
Spawn(p, k, inherits) ==
  /\ Running(p)
  /\ \E c \in Tasks : ~Running(c)
  /\ k = "task" => inherits
  /\ LET c == NextChild
     IN  /\ parent' = [parent EXCEPT ![c] = p]
         /\ Commit([trace_context EXCEPT ![c] = IF inherits THEN CurrentContext(p) ELSE 0],
                   heap, held)
         /\ own' = [own EXCEPT ![c] = IF inherits THEN own[p] ELSE EmptyDict]
  /\ out' = NoOut
  /\ UNCHANGED logvars

\* ---------------------------------------------------------------- log records
\* The log records handed to the formatters: levelname, logger name, message,
\* the attributes set through `extra`, and exc_info (None when there is none).
LogRecords ==
  { [levelname |-> "INFO", name |-> "framework.runtime", msg |-> "run started",
     extra |-> EmptyDict, exc_info |-> None],
    [levelname |-> "ERROR", name |-> "framework.node", msg |-> "node failed",
     extra |-> [event |-> "start", node_id |-> "n9", trace_id |-> "evt"],
     exc_info |-> "ValueError: boom"] }

\* getattr(record, k, None): an attribute set through `extra`, else None.
GetAttr(rec, k) == IF k \in DOMAIN rec.extra THEN rec.extra[k] ELSE None

\* record.getMessage(): the message, which carries no arguments to interpolate.
GetMessage(rec) == rec.msg

\* record.levelname.lower()
Lower(levelname) ==
  CASE levelname = "DEBUG" -> "debug"
    [] levelname = "INFO" -> "info"
    [] levelname = "WARNING" -> "warning"
    [] levelname = "ERROR" -> "error"
    [] levelname = "CRITICAL" -> "critical"
    [] OTHER -> levelname

\* datetime.now(UTC).isoformat() at instant n: ISO-8601 with the UTC offset.
IsoFormat(n) == "1970-01-01T00:00:0" \o ToString(n) \o "+00:00"

\* self.formatException(record.exc_info): the rendered traceback text.
FormatException(exc_info) == "Traceback (most recent call last):\n" \o exc_info

\* json.dumps(d), read back by a JSON parser: the object's members.
JsonDumps(d) == {<<k, d[k]>> : k \in DOMAIN d}
JsonKeys(line) == {m[1] : m \in line}
JsonGet(line, k) == (CHOOSE m \in line : m[1] = k)[2]

\* ---------------------------------------------------------------- StructuredFormatter
\* The four keys of the base log entry.
ReservedKeys == {"timestamp", "level", "logger", "message"}

\* The record attributes the formatter looks for, in the order it adds them.
ExtraFields == <<"event", "latency_ms", "tokens_used", "node_id", "model">>

\* log_entry = {"timestamp": ..., "level": ..., "logger": ..., "message": ...}
BaseEntry(rec, now) ==
  [timestamp |-> IsoFormat(now), level |-> Lower(rec.levelname),
   logger |-> rec.name, message |-> GetMessage(rec)]

\* v = getattr(record, k, None); if v is not None: log_entry[k] = v
AddField(entry, rec, k) ==
  IF GetAttr(rec, k) # None THEN DictPut(entry, k, GetAttr(rec, k)) ELSE entry

\* The five optional attributes, added one after the other.
RECURSIVE AddFields(_, _, _)
AddFields(entry, rec, i) ==
  IF i > Len(ExtraFields) THEN entry
  ELSE AddFields(AddField(entry, rec, ExtraFields[i]), rec, i + 1)

\* if record.exc_info: log_entry["exception"] = self.formatException(...)
AddException(entry, rec) ==
  IF rec.exc_info # None /\ rec.exc_info # ""
  THEN DictPut(entry, "exception", FormatException(rec.exc_info))
  ELSE entry

\* StructuredFormatter.format with `context` the dict read from the ContextVar.
FormatJson(rec, context, now) ==
  JsonDumps(AddException(AddFields(DictUpdate(BaseEntry(rec, now), context), rec, 1), rec))

\* ---------------------------------------------------------------- HumanReadableFormatter
TraceIdChars == 8
ExecIdChars == 8
LevelWidth == 8

RESET == "ESC[0m"

\* COLORS.get(levelname, "")
Color(levelname) ==
  CASE levelname = "DEBUG" -> "ESC[36m"
    [] levelname = "INFO" -> "ESC[32m"
    [] levelname = "WARNING" -> "ESC[33m"
    [] levelname = "ERROR" -> "ESC[31m"
    [] levelname = "CRITICAL" -> "ESC[35m"
    [] OTHER -> ""

\* context.get(k, "")
DictGet(d, k, default) == IF k \in DOMAIN d THEN d[k] ELSE default

\* s[:n]
First(s, n) == IF Len(s) <= n THEN s ELSE SubSeq(s, 1, n)

\* A plausible slip: execution_id[:8], the head instead of the tail.
LastFromFront(s, n) == IF Len(s) <= n THEN s ELSE SubSeq(s, 1, n)

\* s[-n:]
Last(s, n) == IF Len(s) <= n THEN s ELSE SubSeq(s, Len(s) - n + 1, Len(s))

\* f"{s:<n}": s padded with spaces on the right to width n, never cut.
RECURSIVE PadRight(_, _)
PadRight(s, n) == IF Len(s) >= n THEN s ELSE PadRight(s \o " ", n)

\* ' | '.join(parts)
RECURSIVE Join(_)
Join(parts) ==
  IF Len(parts) = 0 THEN ""
  ELSE IF Len(parts) = 1 THEN parts[1]
  ELSE parts[1] \o " | " \o Join(Tail(parts))

\* prefix_parts: one segment per non-empty id, in the order trace, exec, agent.
PrefixParts(context) ==
  LET trace_id == DictGet(context, "trace_id", "")
      execution_id == DictGet(context, "execution_id", "")
      agent_id == DictGet(context, "agent_id", "")
  IN  (IF trace_id # "" THEN <<"trace:" \o First(trace_id, TraceIdChars)>> ELSE <<>>)
      \o (IF execution_id # "" THEN <<"exec:" \o Last(execution_id, ExecIdChars)>> ELSE <<>>)
      \o (IF agent_id # "" THEN <<"agent:" \o agent_id>> ELSE <<>>)

\* context_prefix
ContextPrefix(context) ==
  IF Len(PrefixParts(context)) > 0 THEN "[" \o Join(PrefixParts(context)) \o "] " ELSE ""

\* HumanReadableFormatter.format with `context` the dict read from the ContextVar.
FormatHuman(rec, context) ==
  LET event == IF GetAttr(rec, "event") # None
               THEN " [" \o GetAttr(rec, "event") \o "]" ELSE ""
  IN  Color(rec.levelname) \o "[" \o PadRight(rec.levelname, LevelWidth) \o "]" \o RESET
        \o " " \o ContextPrefix(context) \o GetMessage(rec) \o event

\* ---------------------------------------------------------------- format calls
\* A plausible slip: the formatter reads a context captured when logging was
\* set up (the main task's) instead of the caller's.
FormatterContextOfMain(t) == StoreOf(0)

\* context = trace_context.get() or {}, evaluated in the task that logs.
FormatterContext(t) == StoreOf(t)

\* A plausible slip: context.update(log_entry), the merge written the wrong
\* way round, into the dict the ContextVar holds.
ContextUpdated(h, r, entry) == DictUpdate(h[r], entry)

\* log_entry.update(context): the items of the context dict r are read into
\* the entry, a dict of its own; the context dict is left as it is.
ContextRead(h, r, entry) == h[r]

\* Task t logs rec and the JSON formatter renders it at instant now.  The
\* formatter works on the dict the ContextVar holds, or on a new {} when the
\* variable is unset or holds an empty dict.
StructuredFormat(t, rec, now) ==
  /\ Running(t)
  /\ out' = [fmt |-> "json", task |-> t, rec |-> rec, now |-> now,
             line |-> FormatJson(rec, FormatterContext(t), now)]
  /\ UNCHANGED <<parent, trace_context, held, own>>
  /\ UNCHANGED logvars
  /\ heap' = IF CurrentContext(t) = 0 \/ heap[CurrentContext(t)] = EmptyDict THEN heap
             ELSE [heap EXCEPT ![CurrentContext(t)] =
                     ContextRead(heap, CurrentContext(t), BaseEntry(rec, now))]

\* Task t logs rec and the human-readable formatter renders it.
HumanReadableFormat(t, rec) ==
  /\ Running(t)
  /\ out' = [fmt |-> "human", task |-> t, rec |-> rec,
             line |-> FormatHuman(rec, FormatterContext(t))]
  /\ UNCHANGED <<parent, trace_context, heap, held, own>>
  /\ UNCHANGED logvars

\* ---------------------------------------------------------------- configure_logging
\* The arguments configure_logging is called with; its defaults are INFO, auto.
ConfigLevels == {"DEBUG", "INFO", "WARNING", "ERROR", "CRITICAL", "info", "WARN", "bogus"}
ConfigFormats == {"auto", "json", "human", "xml"}

\* The values the two environment variables may hold when the process starts.
Environments ==
  { [LOG_FORMAT |-> f, ENV |-> e] :
      f \in {None, "json", "JSON", "text"},
      e \in {None, "production", "Production", "staging"} }

\* The handlers other code may have bound to the root logger beforehand.
InitialHandlers == {<<>>, <<"Foreign">>, <<"Foreign", "Foreign">>}

\* str.lower() on the values an environment variable takes.
LowerCase(s) ==
  CASE s = "JSON" -> "json"
    [] s = "Production" -> "production"
    [] OTHER -> s

\* level.upper()
Upper(s) ==
  CASE s = "info" -> "INFO"
    [] s = "bogus" -> "BOGUS"
    [] OTHER -> s

\* os.getenv(name, default)
GetEnv(name, default) == IF env[name] = None THEN default ELSE env[name]

\* A plausible slip: the level name is looked up leniently and an unknown
\* name falls back to WARNING.
NameToLevelLenient(name) ==
  CASE name = "CRITICAL" -> 50
    [] name = "FATAL" -> 50
    [] name = "ERROR" -> 40
    [] name = "WARNING" -> 30
    [] name = "WARN" -> 30
    [] name = "INFO" -> 20
    [] name = "DEBUG" -> 10
    [] name = "NOTSET" -> 0
    [] OTHER -> 30

\* The level names logging.setLevel accepts and their numbers; -1: the name is
\* unknown and setLevel raises ValueError.
NameToLevel(name) ==
  CASE name = "CRITICAL" -> 50
    [] name = "FATAL" -> 50
    [] name = "ERROR" -> 40
    [] name = "WARNING" -> 30
    [] name = "WARN" -> 30
    [] name = "INFO" -> 20
    [] name = "DEBUG" -> 10
    [] name = "NOTSET" -> 0
    [] OTHER -> -1

\* A plausible slip: the auto rule looks at ENV only.
SelectFormatByEnvOnly(format) ==
  IF format = "auto"
  THEN IF LowerCase(GetEnv("ENV", "development")) = "production" THEN "json" ELSE "human"
  ELSE format

\* The format after the auto rule: json when LOG_FORMAT, lowercased, is json
\* or ENV, lowercased, is production; human otherwise; an explicit format as
\* it was given.
SelectFormat(format) ==
  IF format = "auto"
  THEN IF LowerCase(GetEnv("LOG_FORMAT", "")) = "json"
            \/ LowerCase(GetEnv("ENV", "development")) = "production"
       THEN "json" ELSE "human"
  ELSE format

\* The formatter created for a format: StructuredFormatter for json,
\* HumanReadableFormatter for anything else.
NewFormatter(format) ==
  IF format = "json" THEN "StructuredFormatter" ELSE "HumanReadableFormatter"

\* A plausible slip: the new handler is added without clearing the old ones.
HandlerAdded(handlers, formatter) == Append(handlers, formatter)

\* root_logger.handlers.clear(); root_logger.addHandler(handler)
HandlersReplaced(handlers, formatter) == <<formatter>>

\* A plausible slip: the level argument is dropped and INFO is always set.
SetLevelDefault(current, name) == [level |-> 20, error |-> "none"]

\* root_logger.setLevel(name): the new level, or ValueError and the level as
\* it was for a name logging does not know.
SetLevel(current, name) ==
  IF NameToLevel(name) >= 0
  THEN [level |-> NameToLevel(name), error |-> "none"]
  ELSE [level |-> current, error |-> "ValueError"]

\* configure_logging(level, format).  The handler is replaced before the level
\* is set, so a call that raises on the level has already bound its handler.
\* The call runs to its end before any other logging call.
ConfigureLogging(level, format) ==
  LET formatter == NewFormatter(SelectFormat(format))
      handlers == HandlersReplaced(root.handlers, formatter)
      set == SetLevel(root.level, Upper(level))
  IN  /\ root' = [handlers |-> handlers, level |-> set.level]
      /\ call' = [level |-> level, format |-> format, found |-> Len(root.handlers),
                  error |-> set.error]
      /\ sink' = NoSink
      /\ out' = NoOut
      /\ UNCHANGED <<parent, trace_context, heap, held, own, env>>

\* handler.format(record) for a handler with the given formatter, record
\* logged by task t; a foreign handler renders the bare message.
Render(formatter, t, rec, now) ==
  CASE formatter = "StructuredFormatter" ->
         [formatter |-> formatter, line |-> FormatJson(rec, FormatterContext(t), now)]
    [] formatter = "HumanReadableFormatter" ->
         [formatter |-> formatter, line |-> FormatHuman(rec, FormatterContext(t))]
    [] OTHER -> [formatter |-> formatter, line |-> GetMessage(rec)]

\* Task t logs rec through a logger below the root at instant now.  The
\* record is dropped when its level is under the root logger's; otherwise
\* every handler of the root logger formats it and writes the line.  With no
\* handler at all, logging's last-resort handler writes the bare message of a
\* record at WARNING or above.
Emit(t, rec, now) ==
  /\ Running(t)
  /\ sink' =
       IF NameToLevel(rec.levelname) < root.level
       THEN [lines |-> <<>>, logged |-> TRUE, rec |-> rec, task |-> t, now |-> now]
       ELSE IF root.handlers = <<>>
       THEN [lines |-> IF NameToLevel(rec.levelname) >= WARNING
                       THEN <<Render("lastResort", t, rec, now)>> ELSE <<>>,
             logged |-> TRUE, rec |-> rec, task |-> t, now |-> now]
       ELSE [lines |-> [i \in 1..Len(root.handlers) |-> Render(root.handlers[i], t, rec, now)],
             logged |-> TRUE, rec |-> rec, task |-> t, now |-> now]
  /\ out' = NoOut
  /\ UNCHANGED <<parent, trace_context, heap, held, own, root, env, call>>

\* The process before configure_logging is first called: nothing in the
\* store, the root logger at WARNING with whatever handlers other code bound,
\* and the environment as the process was started.
InitConfig ==
  /\ parent = [t \in Tasks |-> -1]
  /\ trace_context = [t \in Tasks |-> 0]
  /\ heap = [x \in {} |-> EmptyDict]
  /\ held = 0
  /\ own = [t \in Tasks |-> EmptyDict]
  /\ out = NoOut
  /\ root \in {[handlers |-> hs, level |-> WARNING] : hs \in InitialHandlers}
  /\ env \in Environments
  /\ call = NoCall
  /\ sink = NoSink

\* ---------------------------------------------------------------- specifications
\* The context store under concurrency: tasks set, clear and read their
\* context and spawn children.
Next ==
  \/ \E t \in Tasks, kwargs \in Updates : SetTraceContext(t, kwargs)
  \/ \E t \in Tasks : GetTraceContext(t)
  \/ \E t \in Tasks : ClearTraceContext(t)
  \/ \E p \in Tasks, k \in {"task", "thread"}, inherits \in BOOLEAN : Spawn(p, k, inherits)

Spec == Init /\ [][Next]_vars

\* Logging under concurrency: tasks set and clear their context, spawn
\* children, and log through either formatter.
NextLog ==
  \/ \E t \in Tasks, kwargs \in Updates : SetTraceContext(t, kwargs)
  \/ \E t \in Tasks : ClearTraceContext(t)
  \/ \E p \in Tasks, k \in {"task", "thread"}, inherits \in BOOLEAN : Spawn(p, k, inherits)
  \/ \E t \in Tasks, rec \in LogRecords, now \in Instants : StructuredFormat(t, rec, now)
  \/ \E t \in Tasks, rec \in LogRecords : HumanReadableFormat(t, rec)

SpecLog == Init /\ [][NextLog]_vars

\* One task that sets, clears and reads its context, modifies the dicts it
\* was given, and logs through either formatter.
NextCopy ==
  \/ \E kwargs \in Updates : SetTraceContext(0, kwargs)
  \/ GetTraceContext(0)
  \/ ClearTraceContext(0)
  \/ \E k \in CallerKeys, v \in CallerValues : CallerPut(k, v)
  \/ \E k \in CallerKeys : CallerDel(k)
  \/ \E rec \in LogRecords, now \in Instants : StructuredFormat(0, rec, now)
  \/ \E rec \in LogRecords : HumanReadableFormat(0, rec)

SpecCopy == Init /\ [][NextCopy]_vars

\* The keyword arguments that set the three ids the human-readable prefix
\* shows: each id empty, shorter than the cut and longer than the cut.
PrefixUpdates ==
  { [trace_id |-> ""], [trace_id |-> "abc"], [trace_id |-> "0123456789ab"],
    [execution_id |-> ""], [execution_id |-> "run_1"], [execution_id |-> "run_00000001"],
    [agent_id |-> ""], [agent_id |-> "agent-researcher-01"] }

\* One task that sets and clears the ids of its context and logs through the
\* human-readable formatter.
NextPrefix ==
  \/ \E kwargs \in PrefixUpdates : SetTraceContext(0, kwargs)
  \/ ClearTraceContext(0)
  \/ \E rec \in LogRecords : HumanReadableFormat(0, rec)

SpecPrefix == Init /\ [][NextPrefix]_vars

\* Configuration and logging: the process (re)configures logging, sets and
\* clears its context, and logs.
NextConfig ==
  \/ \E level \in ConfigLevels, format \in ConfigFormats : ConfigureLogging(level, format)
  \/ \E rec \in LogRecords, now \in Instants : Emit(0, rec, now)

SpecConfig == InitConfig /\ [][NextConfig]_vars

\* ---------------------------------------------------------------- properties
\* Two running tasks spawned by the same parent.
Siblings(a, b) ==
  a # b /\ Running(a) /\ Running(b) /\ parent[a] # -1 /\ parent[a] = parent[b]

\* c is a running task spawned by p.
ParentChild(p, c) == Running(c) /\ parent[c] = p

\* C1 (task isolation): for two running tasks A and B spawned by the same
\* parent, what B reads is always the mapping B inherited folded with B's own
\* set/clear calls: the store B would read equals own[B] in every state, the
\* dict a get_trace_context call in B returns equals own[B], and no set or
\* clear by A changes what B reads: a step either leaves B's store as it
\* reads or is no set/clear of A (and the same with A and B exchanged, as the
\* quantifier ranges over both orders).
C1_TaskIsolation ==
  /\ [](\A a, b \in Tasks : Siblings(a, b) => StoreOf(b) = own[b])
  /\ [][\A a, b \in Tasks : Siblings(a, b) =>
          /\ GetTraceContext(b) => heap'[held'] = own[b]
          /\ StoreOf(b)' = StoreOf(b)
               \/ ~(ClearTraceContext(a) \/ \E kwargs \in Updates : SetTraceContext(a, kwargs))]_vars

\* C1 witness: two siblings whose stores hold different trace ids, one of
\* which has just been read.
C1_Witness ==
  \E a, b \in Tasks :
    /\ Siblings(a, b)
    /\ "trace_id" \in DOMAIN StoreOf(a) /\ "trace_id" \in DOMAIN StoreOf(b)
    /\ StoreOf(a)["trace_id"] # StoreOf(b)["trace_id"]
    /\ held # 0 /\ heap[held] = StoreOf(b)

\* C2 (fork seeding), as claimed: whenever a task c is spawned by p, thread or
\* cooperative task alike, c starts with the mapping p holds at spawn time.
C2_ForkSeeding ==
  [][\A p, c \in Tasks :
       (~Running(c) /\ Running(c)' /\ parent'[c] = p) => StoreOf(c)' = StoreOf(p)]_vars

\* C3 (fork snapshot semantics): once c has been spawned by p, no set or clear
\* in p changes what c reads, and no set or clear in c changes what p reads:
\* a step either leaves the one's store as it reads or is no set/clear of
\* the other.
C3_ForkSnapshot ==
  [][\A p, c \in Tasks : ParentChild(p, c) =>
       /\ StoreOf(c)' = StoreOf(c)
            \/ ~(ClearTraceContext(p) \/ \E kwargs \in Updates : SetTraceContext(p, kwargs))
       /\ StoreOf(p)' = StoreOf(p)
            \/ ~(ClearTraceContext(c) \/ \E kwargs \in Updates : SetTraceContext(c, kwargs))]_vars

\* C3 witness: a child still reads the trace id t1 it was spawned with while
\* its parent has moved on to t2.
C3_Witness ==
  \E p, c \in Tasks :
    /\ ParentChild(p, c)
    /\ StoreOf(c) = [trace_id |-> "0123456789ab"]
    /\ own[c] = StoreOf(c)
    /\ "trace_id" \in DOMAIN StoreOf(p) /\ StoreOf(p)["trace_id"] = "t2"

\* The record attributes that the JSON formatter writes over a context entry
\* of the same name: the five optional attributes that are set, and
\* "exception" when the record carries exc_info.
Overriding(rec) ==
  {ExtraFields[i] : i \in {j \in 1..Len(ExtraFields) : GetAttr(rec, ExtraFields[j]) # None}}
    \cup (IF rec.exc_info # None /\ rec.exc_info # "" THEN {"exception"} ELSE {})

\* C4 (reserved keys), as claimed: in every rendered JSON record, level,
\* logger and message are the log record's own lowercased level name, logger
\* name and message, and timestamp is the value the formatter produced,
\* whatever the context holds.
C4_ReservedKeys ==
  out.fmt = "json" =>
    /\ JsonGet(out.line, "timestamp") = IsoFormat(out.now)
    /\ JsonGet(out.line, "level") = Lower(out.rec.levelname)
    /\ JsonGet(out.line, "logger") = out.rec.name
    /\ JsonGet(out.line, "message") = GetMessage(out.rec)

\* C5 (merge precedence), as claimed: for every non-reserved key that both the
\* context and the event's fields carry, recognized or not, the rendered JSON
\* record has the event's value.
C5_MergePrecedence ==
  out.fmt = "json" =>
    \A k \in (DOMAIN out.rec.extra \cap DOMAIN StoreOf(out.task)) \ ReservedKeys :
      k \in JsonKeys(out.line) /\ JsonGet(out.line, k) = out.rec.extra[k]

\* C6 (each line carries its emitter's context): every rendered line is
\* rendered under the emitting task's own mapping (what it inherited folded
\* with its own set/clear calls): a JSON record holds every entry of that
\* mapping the record itself does not write over, and no key that comes from
\* neither the base entry, the record nor that mapping; a human line is the
\* line rendered under that mapping.
C6_EmitterContext ==
  /\ out.fmt = "json" =>
       /\ \A k \in DOMAIN own[out.task] \ Overriding(out.rec) :
            k \in JsonKeys(out.line) /\ JsonGet(out.line, k) = own[out.task][k]
       /\ \A k \in JsonKeys(out.line) \ (ReservedKeys \cup Overriding(out.rec)) :
            k \in DOMAIN own[out.task]
  /\ out.fmt = "human" => out.line = FormatHuman(out.rec, own[out.task])

\* C6 witness: a child task whose store differs from the main task's and from
\* a sibling's has just logged through the JSON formatter.
C6_Witness ==
  /\ out.fmt = "json"
  /\ out.task # 0
  /\ StoreOf(out.task) # EmptyDict
  /\ StoreOf(0) # EmptyDict
  /\ \A t \in Tasks \ {out.task} : Running(t) /\ StoreOf(t) # StoreOf(out.task)

\* C7 (shallow last-writer-wins merge): set_trace_context(**kwargs) leaves the
\* task's store with exactly the keys of the old store and of kwargs, kwargs'
\* value for each key of kwargs and the old value for every other key; a call
\* with no arguments leaves the store as it reads; and every running task's
\* store equals the fold of its own calls over its initial mapping.
C7_ShallowMerge ==
  /\ [][\A t \in Tasks, kwargs \in Updates : SetTraceContext(t, kwargs) =>
          /\ DOMAIN StoreOf(t)' = DOMAIN StoreOf(t) \cup DOMAIN kwargs
          /\ \A k \in DOMAIN kwargs : StoreOf(t)'[k] = kwargs[k]
          /\ \A k \in DOMAIN StoreOf(t) \ DOMAIN kwargs : StoreOf(t)'[k] = StoreOf(t)[k]
          /\ kwargs = EmptyDict => StoreOf(t)' = StoreOf(t)]_vars
  /\ [](\A t \in Tasks : Running(t) => StoreOf(t) = own[t])

\* C7 witness: a store in which a later call replaced trace_id and kept the
\* node_id and level entries of an earlier call.
C7_Witness ==
  \E t \in Tasks :
    StoreOf(t) = [trace_id |-> "0123456789ab", node_id |-> "n1", level |-> "ctx"]

\* C8 (idempotent clear): after clear_trace_context the task reads the empty
\* mapping whatever its store was, a get_trace_context on a cleared store
\* returns the empty mapping, and clearing a second time gives the state the
\* first clear gave.
C8_IdempotentClear ==
  /\ [][\A t \in Tasks :
          /\ ClearTraceContext(t) => CurrentContext(t)' = 0 /\ StoreOf(t)' = EmptyDict
          /\ (GetTraceContext(t) /\ CurrentContext(t) = 0) => heap'[held'] = EmptyDict]_vars
  /\ [](\A t \in Tasks :
          LET once == ContextCleared(heap, CurrentContext(t))
          IN  ContextCleared(once.heap, once.ref) = once)

\* C8 witness: the main task has cleared a store its child inherited and
\* still holds, and has read the empty mapping back.
C8_Witness ==
  /\ trace_context[0] = 0
  /\ \E c \in Tasks : ParentChild(0, c) /\ own[c] = [trace_id |-> "0123456789ab"]
  /\ held # 0 /\ heap[held] = EmptyDict

\* C9 (copy-on-read): a dict returned by get_trace_context equals the store
\* at the call (the empty mapping when nothing is set) and the call is always
\* possible; later set/clear calls leave the returned dict as it is; writing
\* or deleting keys in the returned dict changes neither what the task reads
\* later nor what the formatters render.
C9_CopyOnRead ==
  /\ [][GetTraceContext(0) =>
          /\ heap'[held'] = StoreOf(0)
          /\ CurrentContext(0) = 0 => heap'[held'] = EmptyDict]_vars
  /\ [](ENABLED GetTraceContext(0))
  /\ [][(held # 0 /\ (ClearTraceContext(0) \/ \E kwargs \in Updates : SetTraceContext(0, kwargs)))
          => (held' # 0 /\ heap'[held'] = heap[held])]_vars
  /\ [][((\E k \in CallerKeys, v \in CallerValues : CallerPut(k, v))
           \/ (\E k \in CallerKeys : CallerDel(k)))
          => StoreOf(0)' = StoreOf(0)]_vars
  /\ [](out.fmt = "json" => out.line = FormatJson(out.rec, own[0], out.now))
  /\ [](out.fmt = "human" => out.line = FormatHuman(out.rec, own[0]))

\* C9 witness: the caller overwrote trace_id in the dict it was given, the
\* store still holds its own trace_id, and a record has been rendered since.
C9_Witness ==
  /\ held # 0
  /\ heap[held] = [trace_id |-> "mine"]
  /\ StoreOf(0) = [trace_id |-> "0123456789ab"]
  /\ out.fmt = "json"

\* C10 (exact JSON key set), as claimed: the keys of a rendered JSON record
\* are the four reserved keys, the keys of the context, the keys of the
\* event's fields, and "exception" exactly when the event carries a failure.
C10_ExactKeySet ==
  out.fmt = "json" =>
    JsonKeys(out.line) =
      ReservedKeys \cup DOMAIN StoreOf(out.task) \cup DOMAIN out.rec.extra
        \cup (IF out.rec.exc_info # None THEN {"exception"} ELSE {})

\* C11 (human prefix): a human-readable line is the level tag, then the
\* prefix, then the message and event, where the prefix has one segment for
\* exactly those of trace_id, execution_id, agent_id that are present and
\* non-empty, in that order, joined by " | " inside one pair of brackets
\* followed by a space, with trace_id cut to its first 8 characters,
\* execution_id to its last 8 and agent_id whole; with none of the three
\* there is no bracket at all.  The context {trace_id: 0123456789ab,
\* execution_id: run_00000001} gives [trace:01234567 | exec:00000001].
C11_HumanPrefix ==
  out.fmt = "human" =>
    LET context == own[out.task]
        has(k) == k \in DOMAIN context /\ context[k] # ""
        t == IF has("trace_id")
             THEN "trace:" \o (IF Len(context["trace_id"]) > 8
                               THEN SubSeq(context["trace_id"], 1, 8)
                               ELSE context["trace_id"])
             ELSE ""
        e == IF has("execution_id")
             THEN "exec:" \o (IF Len(context["execution_id"]) > 8
                              THEN SubSeq(context["execution_id"],
                                          Len(context["execution_id"]) - 7,
                                          Len(context["execution_id"]))
                              ELSE context["execution_id"])
             ELSE ""
        a == IF has("agent_id") THEN "agent:" \o context["agent_id"] ELSE ""
        te == IF has("trace_id") /\ has("execution_id") THEN " | " ELSE ""
        ea == IF (has("trace_id") \/ has("execution_id")) /\ has("agent_id")
              THEN " | " ELSE ""
        prefix == IF has("trace_id") \/ has("execution_id") \/ has("agent_id")
                  THEN "[" \o t \o te \o e \o ea \o a \o "] " ELSE ""
        head == Color(out.rec.levelname) \o "[" \o PadRight(out.rec.levelname, LevelWidth)
                  \o "]" \o RESET \o " "
        tail == GetMessage(out.rec)
                  \o (IF GetAttr(out.rec, "event") # None
                      THEN " [" \o GetAttr(out.rec, "event") \o "]" ELSE "")
    IN  /\ out.line = head \o prefix \o tail
        /\ (context = [trace_id |-> "0123456789ab", execution_id |-> "run_00000001"]
               /\ out.rec.levelname = "INFO")
             => out.line = "ESC[32m[INFO    ]ESC[0m [trace:01234567 | exec:00000001] run started"

\* C11 witness: a line has been rendered under a context whose trace_id and
\* execution_id are both longer than the cut and whose agent_id is set.
C11_Witness ==
  /\ out.fmt = "human"
  /\ StoreOf(out.task) = [trace_id |-> "0123456789ab", execution_id |-> "run_00000001",
                           agent_id |-> "agent-researcher-01"]
  /\ out.line = "ESC[32m[INFO    ]ESC[0m [trace:01234567 | exec:00000001 | agent:agent-researcher-01] run started"

\* C12 (auto format selection), as claimed: with format "auto" the JSON
\* formatter is bound if and only if LOG_FORMAT equals "json" or ENV equals
\* "production", and the Human formatter for any other value of either
\* variable, unset included; with format "json" or "human" the formatter is
\* the one named, whatever the environment holds.
C12_AutoSelection ==
  call # NoCall =>
    /\ call.format = "auto" =>
         root.handlers =
           IF env.LOG_FORMAT = "json" \/ env.ENV = "production"
           THEN <<"StructuredFormatter">> ELSE <<"HumanReadableFormatter">>
    /\ call.format = "json" => root.handlers = <<"StructuredFormatter">>
    /\ call.format = "human" => root.handlers = <<"HumanReadableFormatter">>

\* C12 (auto format selection), amended: with format "auto" the JSON
\* formatter is bound if and only if LOG_FORMAT is "json" in any letter case
\* or ENV is "production" in any letter case, and the Human formatter
\* otherwise, unset included; with format "json" or "human" the formatter is
\* the one named, whatever the environment holds.
C12_AutoSelectionAnyCase ==
  call # NoCall =>
    /\ call.format = "auto" =>
         root.handlers =
           IF env.LOG_FORMAT \in {"json", "JSON"} \/ env.ENV \in {"production", "Production"}
           THEN <<"StructuredFormatter">> ELSE <<"HumanReadableFormatter">>
    /\ call.format = "json" => root.handlers = <<"StructuredFormatter">>
    /\ call.format = "human" => root.handlers = <<"HumanReadableFormatter">>

\* C12 witness: an auto call bound the JSON formatter on LOG_FORMAT=JSON in a
\* staging environment.
C12_Witness ==
  /\ call # NoCall /\ call.format = "auto"
  /\ env = [LOG_FORMAT |-> "JSON", ENV |-> "staging"]
  /\ root.handlers = <<"StructuredFormatter">>

\* C13 (idempotent reconfigure, last call wins): when the latest
\* configure_logging call succeeded, whatever was bound before it, the root
\* logger has exactly one handler, its formatter is the variant that call
\* selected and its threshold is that call's level; an event at or above the
\* threshold is written as exactly one line, by that formatter.
C13_LastCallWins ==
  call # NoCall /\ call.error = "none" =>
    LET json == \/ call.format = "json"
                \/ /\ call.format = "auto"
                   /\ \/ env.LOG_FORMAT \in {"json", "JSON"}
                      \/ env.ENV \in {"production", "Production"}
        threshold == CASE call.level = "DEBUG" -> 10
                       [] call.level \in {"INFO", "info"} -> 20
                       [] call.level \in {"WARNING", "WARN"} -> 30
                       [] call.level = "ERROR" -> 40
                       [] call.level = "CRITICAL" -> 50
    IN  /\ Len(root.handlers) = 1
        /\ root.handlers[1] = IF json THEN "StructuredFormatter" ELSE "HumanReadableFormatter"
        /\ root.level = threshold
        /\ (sink.logged /\ NameToLevel(sink.rec.levelname) >= threshold) =>
             /\ Len(sink.lines) = 1
             /\ sink.lines[1].formatter = root.handlers[1]

\* C13 witness: a successful call found two handlers bound, and the event
\* logged after it was written once, as JSON.
C13_Witness ==
  /\ call # NoCall /\ call.error = "none" /\ call.found = 2
  /\ sink.logged /\ Len(sink.lines) = 1
  /\ sink.lines[1].formatter = "StructuredFormatter"

\* C14 (configure error surface), as claimed: a configure_logging call whose
\* level is not one of DEBUG, INFO, WARNING, ERROR, CRITICAL raises an error;
\* a call with one of the five never fails, whatever its format; and set, get
\* and clear on the context store are always possible.
C14_ErrorSurface ==
  /\ call # NoCall =>
       (call.error # "none"
          <=> call.level \notin {"DEBUG", "INFO", "WARNING", "ERROR", "CRITICAL"})
  /\ \A kwargs \in Updates : ENABLED SetTraceContext(0, kwargs)
  /\ ENABLED GetTraceContext(0)
  /\ ENABLED ClearTraceContext(0)

\* C14 (configure error surface), amended: a configure_logging call raises
\* ValueError exactly when its level, upper-cased, is not a level name the
\* logging module knows (DEBUG, INFO, WARNING, ERROR, CRITICAL and the aliases
\* WARN, FATAL, NOTSET); a call with a known name in any letter case never
\* fails, whatever its format; and set, get and clear on the context store
\* are always possible.
C14_ErrorSurfaceKnownNames ==
  /\ call # NoCall =>
       /\ call.error \in {"none", "ValueError"}
       /\ call.error = "ValueError"
            <=> Upper(call.level) \notin {"DEBUG", "INFO", "WARNING", "ERROR", "CRITICAL",
                                          "WARN", "FATAL", "NOTSET"}
  /\ \A kwargs \in Updates : ENABLED SetTraceContext(0, kwargs)
  /\ ENABLED GetTraceContext(0)
  /\ ENABLED ClearTraceContext(0)

\* C14 witness: a call with an unknown level name has raised ValueError.
C14_Witness ==
  call # NoCall /\ call.level = "bogus" /\ call.format = "json" /\ call.error = "ValueError"

\* C15 (severity threshold is the only drop): when the latest call,
\* configure_logging(level L) with L one of the five levels, succeeded, an
\* event logged at or above L, in the order DEBUG < INFO < WARNING < ERROR <
\* CRITICAL, is rendered by the bound formatter under the emitter's context
\* and written exactly once, and an event below L is written zero times, no
\* formatter having rendered it.
C15_ThresholdOnlyDrop ==
  LET rank(n) == CASE n = "DEBUG" -> 1 [] n = "INFO" -> 2 [] n = "WARNING" -> 3
                   [] n = "ERROR" -> 4 [] n = "CRITICAL" -> 5
      five == {"DEBUG", "INFO", "WARNING", "ERROR", "CRITICAL"}
  IN  (call # NoCall /\ call.error = "none" /\ call.level \in five /\ sink.logged) =>
        IF rank(sink.rec.levelname) >= rank(call.level)
        THEN /\ Len(sink.lines) = 1
             /\ sink.lines[1].formatter = root.handlers[1]
             /\ sink.lines[1].line =
                  IF root.handlers[1] = "StructuredFormatter"
                  THEN FormatJson(sink.rec, own[sink.task], sink.now)
                  ELSE FormatHuman(sink.rec, own[sink.task])
        ELSE sink.lines = <<>>

\* C15 witness: after configure_logging(level WARNING) an INFO event was
\* logged and nothing was written.
C15_Witness ==
  /\ call # NoCall /\ call.error = "none" /\ call.level = "WARNING"
  /\ sink.logged /\ sink.rec.levelname = "INFO" /\ sink.lines = <<>>

\* C16 (failed configure is atomic), as claimed: a configure_logging call that
\* raises on its level leaves the root logger as it was: the handlers bound
\* before the call are still the only ones, and the threshold is unchanged.
C16_FailedConfigureAtomic ==
  [][(call'.error = "ValueError"
        /\ \E level \in ConfigLevels, format \in ConfigFormats : ConfigureLogging(level, format))
       => root' = root]_vars

\* C17 (rendering is read-only on the store): a format call of either
\* formatter leaves every task's store, the ContextVar's values and the dict
\* objects as they were, so that get_trace_context returns the same mapping
\* before and after it; after a rendering every running task still reads
\* exactly what it inherited and set itself, none of the keys the formatter
\* put into the record on its own is in the emitter's store, and a rendered
\* record holds no key beyond the base entry's, its own attributes' and the
\* emitter's context's.
C17_RenderingReadOnly ==
  /\ [][out'.fmt # "none" =>
          /\ \A t \in Tasks : StoreOf(t)' = StoreOf(t)
          /\ trace_context' = trace_context /\ heap' = heap /\ held' = held]_vars
  /\ [](out.fmt # "none" => \A t \in Tasks : Running(t) => StoreOf(t) = own[t])
  /\ [](out.fmt = "json" =>
          /\ \A k \in JsonKeys(out.line) \ DOMAIN own[out.task] :
               k \notin DOMAIN StoreOf(out.task)
          /\ JsonKeys(out.line) \subseteq
               ReservedKeys \cup Overriding(out.rec) \cup DOMAIN own[out.task])

\* C17 witness: a task whose store holds a trace id has logged a record with
\* attributes and an exception through the JSON formatter, and its store
\* still holds the trace id alone.
C17_Witness ==
  /\ out.fmt = "json"
  /\ out.rec.exc_info # None
  /\ \E m \in out.line : m[1] = "exception"
  /\ StoreOf(out.task) = [trace_id |-> "0123456789ab"]

====
